---- MODULE Spec2Model ----
(***************************************************************************)
(* A model of config/config.go of mongodb-tls-certs: the package-level     *)
(* variable Config and the function GetConfig, which reads a YAML          *)
(* document into Config, resolves directories and extensions, fills in     *)
(* each certificate's type and subject (pass 1) and links each certificate *)
(* to its issuer (pass 2).                                                 *)
(*                                                                         *)
(* Go maps are functions whose DOMAIN is the key set; a nil map and an     *)
(* empty map are both the function with empty DOMAIN (the code only ranges *)
(* over them and looks keys up, which Go defines alike for both).  A       *)
(* `range` over a map visits the keys in an unspecified order: each loop   *)
(* keeps the set of keys still to visit and an iteration takes any of      *)
(* them.  A *Cert is the key under which Config.Certificates holds the     *)
(* object (Nil for the nil pointer).  Hosts, KeyFiles, Combos, PrivateKey  *)
(* and Certificate are never read or written by GetConfig after the        *)
(* decode and are left out.                                                *)
(***************************************************************************)
EXTENDS Integers, FiniteSets, Sequences, TLC

(***************************************************************************)
(* Bounds of the model.                                                    *)
(***************************************************************************)
\* the largest number of entries under `certificates` in a document
MaxCerts == 2

(***************************************************************************)
(* Constants of the program.                                               *)
(***************************************************************************)
defaultPublicDirectory == "tls"
defaultPrivateDirectory == "tls/private"
defaultExtensionKey == "key"
defaultExtensionCert == "pem"

RootCACert == 0
IntermediateCACert == 1
OCSPSigningCert == 2
ServerCert == 3
ClientCert == 4

\* the nil *Cert, and the nil error
Nil == "<nil>"
NoError == [kind |-> "none", args |-> <<>>]

Error(kind, args) == [kind |-> kind, args |-> args]

(***************************************************************************)
(* getCertType: the lookup table from a type string to certInfo.  The      *)
(* result is [ok, info]; ok = FALSE is the (nil, error) return.            *)
(***************************************************************************)
theMap ==
    [t \in {"rootCA", "intermediateCA", "OCSPSigning", "server", "client"} |->
        CASE t = "rootCA"         -> [ctype |-> RootCACert, isCA |-> TRUE, isSelfSigned |-> TRUE]
          [] t = "intermediateCA" -> [ctype |-> IntermediateCACert, isCA |-> TRUE, isSelfSigned |-> FALSE]
          [] t = "OCSPSigning"    -> [ctype |-> OCSPSigningCert, isCA |-> FALSE, isSelfSigned |-> FALSE]
          [] t = "server"         -> [ctype |-> ServerCert, isCA |-> FALSE, isSelfSigned |-> FALSE]
          [] t = "client"         -> [ctype |-> ClientCert, isCA |-> FALSE, isSelfSigned |-> FALSE]]

\* a table in which an intermediate authority is not flagged as a CA
getCertTypeNoIntermediateCA(typeString) ==
    IF typeString \in DOMAIN theMap
    THEN [ok |-> TRUE,
          info |-> IF typeString = "intermediateCA"
                   THEN [theMap[typeString] EXCEPT !.isCA = FALSE]
                   ELSE theMap[typeString]]
    ELSE [ok |-> FALSE, info |-> Nil]

getCertType(typeString) ==
    IF typeString \in DOMAIN theMap
    THEN [ok |-> TRUE, info |-> theMap[typeString]]
    ELSE [ok |-> FALSE, info |-> Nil]

(***************************************************************************)
(* The types SubjectType, Cert and Type, with Go's zero values.            *)
(***************************************************************************)
SubjectType(o, ou, cn) == [O |-> o, OU |-> ou, CN |-> cn]

ZeroSubject == SubjectType("", "", "")

\* a Cert as the YAML decoder creates it: the decoded fields, everything else zero
Cert(typeString, issuer, subject) ==
    [TypeString |-> typeString, Issuer |-> issuer, Subject |-> subject,
     Type |-> 0, IsCA |-> FALSE, IsSelfSigned |-> FALSE, IssuerCert |-> Nil]

EmptyMap == [k \in {} |-> ""]

\* the zero value of Type, which is Config's value when the program starts
ZeroConfig ==
    [Directories |-> EmptyMap, Extensions |-> EmptyMap, Subject |-> ZeroSubject,
     Certificates |-> EmptyMap,
     PublicDirectory |-> "", PrivateDirectory |-> "",
     ExtensionKey |-> "", ExtensionCert |-> ""]

(***************************************************************************)
(* The documents GetConfig is run on.  A document is the file named by     *)
(* configFilename: whether os.ReadFile can read it, whether yaml.Unmarshal *)
(* accepts it, and the sections the decoder hands to Config.  A section    *)
(* that is absent is the empty map; a string that is absent is "".         *)
(***************************************************************************)
CertNamePool == <<"a", "b", "c", "d", "e", "f">>

CertNames(n) == {CertNamePool[i] : i \in 1..n}

TypeStrings == DOMAIN theMap \cup {"bogus"}

\* "ghost" is never the name of a certificate
IssuerStrings == {""} \cup CertNames(MaxCerts) \cup {"ghost"}

Restrict(f, S) == [k \in S |-> f[k]]

DirectoryEntries == [public |-> "pub", private |-> "priv", backup |-> "bk"]
ExtensionEntries == [key |-> "k", certificate |-> "crt", bak |-> "old"]

DirectoryMaps == {Restrict(DirectoryEntries, S) : S \in SUBSET DOMAIN DirectoryEntries}
ExtensionMaps == {Restrict(ExtensionEntries, S) : S \in SUBSET DOMAIN ExtensionEntries}

AcmeSubject == SubjectType("Acme", "Y", "foo.com")
DefaultSubjects == {SubjectType(o, ou, cn) : o \in {"", "Acme"}, ou \in {"", "Y"}, cn \in {"", "foo.com"}}
OwnSubjects == {SubjectType(o, ou, cn) : o \in {"", "Org"}, ou \in {"", "X"}, cn \in {"", "host"}}

CertSpec(typeString, issuer, subject) ==
    [TypeString |-> typeString, Issuer |-> issuer, Subject |-> subject]

Document(dirs, exts, subject, certs) ==
    [readable |-> TRUE, parseable |-> TRUE, directories |-> dirs, extensions |-> exts,
     Subject |-> subject, certificates |-> certs]

\* the certificates of the documents that vary the hierarchy: every type string
\* with every issuer string
HierarchyCertSpecs ==
    {CertSpec(t, i, ZeroSubject) : t \in TypeStrings, i \in IssuerStrings}

\* no unknown key, or one, in each section of those documents
HierarchyDirectories == {EmptyMap, Restrict(DirectoryEntries, {"backup"})}
HierarchyExtensions == {EmptyMap, Restrict(ExtensionEntries, {"bak"})}

ScenarioA == ("a" :> CertSpec("rootCA", "", ZeroSubject)) @@ ("b" :> CertSpec("server", "a", ZeroSubject))
\* the issuer of the server is a client (Scenario B without its root)
ScenarioB == ("a" :> CertSpec("client", "", ZeroSubject)) @@ ("b" :> CertSpec("server", "a", ZeroSubject))
ScenarioC == ("a" :> CertSpec("rootCA", "b", ZeroSubject)) @@ ("b" :> CertSpec("server", "a", ZeroSubject))
ScenarioD == ("a" :> CertSpec("rootCA", "", ZeroSubject)) @@ ("b" :> CertSpec("server", "ghost", ZeroSubject))
ScenarioBadType == ("a" :> CertSpec("rootCA", "", ZeroSubject)) @@ ("b" :> CertSpec("bogus", "ghost", ZeroSubject))

\* every directories and extensions mapping, over a few certificate mappings
KeyDocuments ==
    {Document(dirs, exts, AcmeSubject, certs) :
        dirs \in DirectoryMaps, exts \in ExtensionMaps,
        certs \in {EmptyMap, ScenarioA, ScenarioD, ScenarioBadType}}

\* the certificates of the documents that vary the subjects: a root and the
\* servers it issues, with the own subjects given
SubjectCertificates(own) ==
    [c \in DOMAIN own |->
        CertSpec(IF c = "a" THEN "rootCA" ELSE "server", IF c = "a" THEN "" ELSE "a", own[c])]

\* files that cannot be read, and files that are not the YAML the decoder expects
BrokenDocuments ==
    {[d EXCEPT !.readable = FALSE] : d \in {Document(EmptyMap, EmptyMap, AcmeSubject, ScenarioA)}}
    \cup {[d EXCEPT !.parseable = FALSE] : d \in {Document(EmptyMap, EmptyMap, AcmeSubject, ScenarioA)}}

\* the documents of two invocations that run at the same time
ConcurrentDocuments ==
    BrokenDocuments
    \cup {Document(dirs, EmptyMap, AcmeSubject, ScenarioA) :
            dirs \in {Restrict(DirectoryEntries, {"public"}), Restrict(DirectoryEntries, {"backup"})}}
    \cup {Document(EmptyMap, exts, ZeroSubject, certs) :
            exts \in {EmptyMap, Restrict(ExtensionEntries, {"bak"})},
            certs \in {ScenarioB, ScenarioC, ScenarioD, ScenarioBadType}}

(***************************************************************************)
(* The state: the package variable Config, and for each invocation of      *)
(* GetConfig its file, its place in the function, the keys its current     *)
(* range loop has still to visit, and the error it returned.               *)
(***************************************************************************)
VARIABLES Config, file, pc, todo, err

vars == <<Config, file, pc, todo, err>>

Invocations == {1, 2}

configFilename(p) == IF p = 1 THEN "one.yaml" ELSE "two.yaml"

(***************************************************************************)
(* yaml.Unmarshal(configFile, &Config) decodes into the value Config       *)
(* already holds: a map section of the document is added to the map that   *)
(* is there, each certificate of the document is a fresh Cert whose        *)
(* `yaml:"-"` fields are zero, and the `yaml:"-"` fields of Config are not *)
(* touched.                                                                *)
(***************************************************************************)
Merge(old, new) ==
    [k \in DOMAIN old \cup DOMAIN new |-> IF k \in DOMAIN new THEN new[k] ELSE old[k]]

Decode(cfg, d) ==
    [cfg EXCEPT
        !.Directories = Merge(@, d.directories),
        !.Extensions = Merge(@, d.extensions),
        !.Subject = d.Subject,
        !.Certificates =
            Merge(@, [n \in DOMAIN d.certificates |->
                        Cert(d.certificates[n].TypeString, d.certificates[n].Issuer,
                             d.certificates[n].Subject)])]

(***************************************************************************)
(* The bodies of the four range loops of GetConfig, each as a function of  *)
(* Config and the key the iteration visits.  The result is [err, cfg]: the *)
(* error the iteration returns (NoError when the loop goes on) and Config  *)
(* as the iteration leaves it.                                             *)
(***************************************************************************)
\* a switch whose cases assign the other field
setDirectorySwapped(cfg, dirName, filename) ==
    LET dir == cfg.Directories[dirName] IN
    CASE dirName = "public"  -> [err |-> NoError, cfg |-> [cfg EXCEPT !.PrivateDirectory = dir]]
      [] dirName = "private" -> [err |-> NoError, cfg |-> [cfg EXCEPT !.PublicDirectory = dir]]
      [] OTHER -> [err |-> Error("UnrecognizedConfigKey", <<"directories", dirName, filename>>),
                   cfg |-> cfg]

setDirectory(cfg, dirName, filename) ==
    LET dir == cfg.Directories[dirName] IN
    CASE dirName = "public"  -> [err |-> NoError, cfg |-> [cfg EXCEPT !.PublicDirectory = dir]]
      [] dirName = "private" -> [err |-> NoError, cfg |-> [cfg EXCEPT !.PrivateDirectory = dir]]
      [] OTHER -> [err |-> Error("UnrecognizedConfigKey", <<"directories", dirName, filename>>),
                   cfg |-> cfg]

\* the error of the default case is formatted with ext where the directories
\* loop passes the file name
setExtension(cfg, extName) ==
    LET ext == cfg.Extensions[extName] IN
    CASE extName = "key"         -> [err |-> NoError, cfg |-> [cfg EXCEPT !.ExtensionKey = ext]]
      [] extName = "certificate" -> [err |-> NoError, cfg |-> [cfg EXCEPT !.ExtensionCert = ext]]
      [] OTHER -> [err |-> Error("UnrecognizedConfigKey", <<"extensions", extName, ext>>),
                   cfg |-> cfg]

\* a subject that is defaulted as a whole, only when all of its fields are empty
defaultSubjectWhole(own, fallback) ==
    IF own = ZeroSubject THEN fallback ELSE own

defaultSubject(own, fallback) ==
    [O  |-> IF own.O = "" THEN fallback.O ELSE own.O,
     OU |-> IF own.OU = "" THEN fallback.OU ELSE own.OU,
     CN |-> IF own.CN = "" THEN fallback.CN ELSE own.CN]

\* pass 2 without the test that the issuer is a CA
linkIssuerAnyIssuer(cfg, certName) ==
    LET cert == cfg.Certificates[certName] IN
    IF cert.IsSelfSigned
    THEN IF cert.Issuer # ""
         THEN [err |-> Error("SelfSignedWithIssuer", <<certName>>), cfg |-> cfg]
         ELSE [err |-> NoError, cfg |-> cfg]
    ELSE LET ok == cert.Issuer \in DOMAIN cfg.Certificates
             linked == [cfg EXCEPT !.Certificates[certName].IssuerCert =
                                        IF ok THEN cert.Issuer ELSE Nil]
         IN  IF ~ok
             THEN [err |-> Error("MissingIssuer", <<certName, cert.Issuer>>), cfg |-> linked]
             ELSE [err |-> NoError, cfg |-> linked]

\* pass 2 without the test that a self-signed certificate names no issuer
linkIssuerSelfSignedUnchecked(cfg, certName) ==
    LET cert == cfg.Certificates[certName] IN
    IF cert.IsSelfSigned
    THEN [err |-> NoError, cfg |-> cfg]
    ELSE LET ok == cert.Issuer \in DOMAIN cfg.Certificates
             linked == [cfg EXCEPT !.Certificates[certName].IssuerCert =
                                        IF ok THEN cert.Issuer ELSE Nil]
         IN  IF ~ok
             THEN [err |-> Error("MissingIssuer", <<certName, cert.Issuer>>), cfg |-> linked]
             ELSE IF ~cfg.Certificates[cert.Issuer].IsCA
                  THEN [err |-> Error("IssuerNotAuthority", <<certName, cert.Issuer>>),
                        cfg |-> linked]
                  ELSE [err |-> NoError, cfg |-> linked]

\* pass 2; cert.IssuerCert is assigned before ok is tested
linkIssuer(cfg, certName) ==
    LET cert == cfg.Certificates[certName] IN
    IF cert.IsSelfSigned
    THEN IF cert.Issuer # ""
         THEN [err |-> Error("SelfSignedWithIssuer", <<certName>>), cfg |-> cfg]
         ELSE [err |-> NoError, cfg |-> cfg]
    ELSE LET ok == cert.Issuer \in DOMAIN cfg.Certificates
             linked == [cfg EXCEPT !.Certificates[certName].IssuerCert =
                                        IF ok THEN cert.Issuer ELSE Nil]
         IN  IF ~ok
             THEN [err |-> Error("MissingIssuer", <<certName, cert.Issuer>>), cfg |-> linked]
             ELSE IF ~cfg.Certificates[cert.Issuer].IsCA
                  THEN [err |-> Error("IssuerNotAuthority", <<certName, cert.Issuer>>),
                        cfg |-> linked]
                  ELSE [err |-> NoError, cfg |-> linked]

\* one loop that classifies a certificate and links it in the same iteration
resolveTypeAndLink(cfg, certName) ==
    LET cert == cfg.Certificates[certName]
        certType == getCertType(cert.TypeString)
        typed == [cfg EXCEPT !.Certificates[certName] =
                    [cert EXCEPT !.Type = certType.info.ctype,
                                 !.IsCA = certType.info.isCA,
                                 !.IsSelfSigned = certType.info.isSelfSigned,
                                 !.Subject = defaultSubject(cert.Subject, cfg.Subject)]]
    IN  IF ~certType.ok
        THEN [err |-> Error("InvalidCertificateType", <<certName, cert.TypeString>>),
              cfg |-> cfg]
        ELSE linkIssuer(typed, certName)

\* pass 1; the error's arguments are in the order the code passes them to Errorf
resolveType(cfg, certName) ==
    LET cert == cfg.Certificates[certName]
        certType == getCertType(cert.TypeString)
    IN  IF ~certType.ok
        THEN [err |-> Error("InvalidCertificateType", <<certName, cert.TypeString>>),
              cfg |-> cfg]
        ELSE [err |-> NoError,
              cfg |-> [cfg EXCEPT !.Certificates[certName] =
                        [cert EXCEPT !.Type = certType.info.ctype,
                                     !.IsCA = certType.info.isCA,
                                     !.IsSelfSigned = certType.info.isSelfSigned,
                                     !.Subject = defaultSubject(cert.Subject, cfg.Subject)]]]

(***************************************************************************)
(* The order of the statements of GetConfig after the decode: the place    *)
(* control goes to when a loop has visited every key.                      *)
(***************************************************************************)
\* pass 2 placed before pass 1
stageAfterLinkFirst(stage) ==
    CASE stage = "directories" -> "extensions"
      [] stage = "extensions"  -> "pass2"
      [] stage = "pass2"       -> "pass1"
      [] stage = "pass1"       -> "return"

stageAfter(stage) ==
    CASE stage = "directories" -> "extensions"
      [] stage = "extensions"  -> "pass1"
      [] stage = "pass1"       -> "pass2"
      [] stage = "pass2"       -> "return"


loopOf(stage) ==
    CASE stage = "directories" -> "directoriesLoop"
      [] stage = "extensions"  -> "extensionsLoop"
      [] stage = "pass1"       -> "pass1Loop"
      [] stage = "pass2"       -> "pass2Loop"

stageOf(loop) ==
    CASE loop = "directoriesLoop" -> "directories"
      [] loop = "extensionsLoop"  -> "extensions"
      [] loop = "pass1Loop"       -> "pass1"
      [] loop = "pass2Loop"       -> "pass2"

Loops == {"directoriesLoop", "extensionsLoop", "pass1Loop", "pass2Loop"}

(***************************************************************************)
(* GetConfig, one action per statement or loop iteration; p is the         *)
(* invocation.                                                             *)
(***************************************************************************)
ReturnError(p, e) ==
    /\ err' = [err EXCEPT ![p] = e]
    /\ pc' = [pc EXCEPT ![p] = "done"]
    /\ todo' = [todo EXCEPT ![p] = {}]

\* os.ReadFile succeeds
ReadFile(p) ==
    /\ pc[p] = "read"
    /\ file[p].readable
    /\ pc' = [pc EXCEPT ![p] = "unmarshal"]
    /\ UNCHANGED <<Config, file, todo, err>>

\* os.ReadFile fails
ReadFileError(p) ==
    /\ pc[p] = "read"
    /\ ~file[p].readable
    /\ ReturnError(p, Error("DocumentReadError", <<configFilename(p)>>))
    /\ UNCHANGED <<Config, file>>

\* yaml.Unmarshal succeeds
Unmarshal(p) ==
    /\ pc[p] = "unmarshal"
    /\ file[p].parseable
    /\ Config' = Decode(Config, file[p])
    /\ pc' = [pc EXCEPT ![p] = "directories"]
    /\ UNCHANGED <<file, todo, err>>

\* yaml.Unmarshal fails: on a document that is not YAML before it has written
\* anything, on a value of the wrong type after it has decoded the rest
UnmarshalError(p) ==
    /\ pc[p] = "unmarshal"
    /\ ~file[p].parseable
    /\ \/ Config' = Config
       \/ Config' = Decode(Config, file[p])
    /\ ReturnError(p, Error("DocumentParseError", <<configFilename(p)>>))
    /\ UNCHANGED file

\* the body of a range loop has run on key k with result r
Iteration(p, k, r) ==
    /\ Config' = r.cfg
    /\ IF r.err = NoError
       THEN /\ todo' = [todo EXCEPT ![p] = @ \ {k}]
            /\ UNCHANGED <<pc, err>>
       ELSE ReturnError(p, r.err)
    /\ UNCHANGED file

DirectoriesDefaults(p) ==
    /\ pc[p] = "directories"
    /\ Config' = [Config EXCEPT !.PublicDirectory = defaultPublicDirectory,
                                !.PrivateDirectory = defaultPrivateDirectory]
    /\ todo' = [todo EXCEPT ![p] = DOMAIN Config.Directories]
    /\ pc' = [pc EXCEPT ![p] = loopOf("directories")]
    /\ UNCHANGED <<file, err>>

DirectoriesLoop(p) ==
    /\ pc[p] = "directoriesLoop"
    /\ \E dirName \in todo[p] :
          Iteration(p, dirName, setDirectory(Config, dirName, configFilename(p)))

ExtensionsDefaults(p) ==
    /\ pc[p] = "extensions"
    /\ Config' = [Config EXCEPT !.ExtensionKey = defaultExtensionKey,
                                !.ExtensionCert = defaultExtensionCert]
    /\ todo' = [todo EXCEPT ![p] = DOMAIN Config.Extensions]
    /\ pc' = [pc EXCEPT ![p] = loopOf("extensions")]
    /\ UNCHANGED <<file, err>>

ExtensionsLoop(p) ==
    /\ pc[p] = "extensionsLoop"
    /\ \E extName \in todo[p] : Iteration(p, extName, setExtension(Config, extName))

\* `for certName, cert := range Config.Certificates` is entered
CertificatesRange(p) ==
    /\ pc[p] \in {"pass1", "pass2"}
    /\ todo' = [todo EXCEPT ![p] = DOMAIN Config.Certificates]
    /\ pc' = [pc EXCEPT ![p] = loopOf(pc[p])]
    /\ UNCHANGED <<Config, file, err>>

Pass1Loop(p) ==
    /\ pc[p] = "pass1Loop"
    /\ \E certName \in todo[p] : Iteration(p, certName, resolveType(Config, certName))

Pass2Loop(p) ==
    /\ pc[p] = "pass2Loop"
    /\ \E certName \in todo[p] : Iteration(p, certName, linkIssuer(Config, certName))

\* a range loop has visited every key
EndOfRange(p) ==
    /\ pc[p] \in Loops
    /\ todo[p] = {}
    /\ pc' = [pc EXCEPT ![p] = stageAfter(stageOf(pc[p]))]
    /\ UNCHANGED <<Config, file, todo, err>>

\* return nil
Return(p) ==
    /\ pc[p] = "return"
    /\ ReturnError(p, NoError)
    /\ UNCHANGED <<Config, file>>

GetConfig(p) ==
    \/ ReadFile(p)
    \/ ReadFileError(p)
    \/ Unmarshal(p)
    \/ UnmarshalError(p)
    \/ DirectoriesDefaults(p)
    \/ DirectoriesLoop(p)
    \/ ExtensionsDefaults(p)
    \/ ExtensionsLoop(p)
    \/ CertificatesRange(p)
    \/ Pass1Loop(p)
    \/ Pass2Loop(p)
    \/ EndOfRange(p)
    \/ Return(p)

Next == \E p \in Invocations : GetConfig(p)

NoDocument == Document(EmptyMap, EmptyMap, ZeroSubject, EmptyMap)

\* invocation 1 is given document d; invocation 2 is never made
OneFile(d) == file = [p \in Invocations |-> IF p = 1 THEN d ELSE NoDocument]

\* One run of the program: main calls GetConfig once.  The document is one that
\* varies the hierarchy (every mapping of at most MaxCerts certificates over
\* every type and issuer string), one that varies the keys (every directories and
\* extensions mapping), one that varies the subjects (every document-level and
\* every own subject), or a broken file.
Init ==
    /\ Config = ZeroConfig
    /\ \/ \E dirs \in HierarchyDirectories, exts \in HierarchyExtensions, n \in 0..MaxCerts :
            \E certs \in [CertNames(n) -> HierarchyCertSpecs] :
                OneFile(Document(dirs, exts, AcmeSubject, certs))
       \/ \E d \in KeyDocuments \cup BrokenDocuments : OneFile(d)
       \/ \E subject \in DefaultSubjects, n \in 1..MaxCerts :
            \E own \in [CertNames(n) -> OwnSubjects] :
                OneFile(Document(EmptyMap, EmptyMap, subject, SubjectCertificates(own)))
    /\ pc = [p \in Invocations |-> IF p = 1 THEN "read" ELSE "idle"]
    /\ todo = [p \in Invocations |-> {}]
    /\ err = [p \in Invocations |-> NoError]

Spec == Init /\ [][Next]_vars

\* two goroutines call GetConfig, each on its own file
InitConcurrent ==
    /\ Config = ZeroConfig
    /\ file \in [Invocations -> ConcurrentDocuments]
    /\ file[1] # file[2]
    /\ pc = [p \in Invocations |-> "read"]
    /\ todo = [p \in Invocations |-> {}]
    /\ err = [p \in Invocations |-> NoError]

SpecConcurrent == InitConcurrent /\ [][Next]_vars

(***************************************************************************)
(* What the specification says of a document, stated on the document       *)
(* alone: the table of section 4.1, the violations of sections 4.3 and     *)
(* 4.4, and the resolved model of section 3.                               *)
(***************************************************************************)
Done(p) == pc[p] = "done"
Succeeded(p) == Done(p) /\ err[p] = NoError
Failed(p) == Done(p) /\ err[p] # NoError
Loaded(p) == file[p].readable /\ file[p].parseable

Authorities == {"rootCA", "intermediateCA"}
Issued == {"intermediateCA", "OCSPSigning", "server", "client"}
Recognized == Authorities \cup Issued

TableRow(tag) ==
    [ctype |-> CASE tag = "rootCA" -> 0 [] tag = "intermediateCA" -> 1
                 [] tag = "OCSPSigning" -> 2 [] tag = "server" -> 3 [] tag = "client" -> 4,
     isCA |-> tag \in Authorities,
     isSelfSigned |-> tag = "rootCA"]

UnknownDirectories(d) == DOMAIN d.directories \ {"public", "private"}
UnknownExtensions(d) == DOMAIN d.extensions \ {"key", "certificate"}
InvalidTypes(d) == {n \in DOMAIN d.certificates : d.certificates[n].TypeString \notin Recognized}
SelfSignedWithIssuer(d) ==
    {n \in DOMAIN d.certificates :
        d.certificates[n].TypeString = "rootCA" /\ d.certificates[n].Issuer # ""}
MissingIssuer(d) ==
    {n \in DOMAIN d.certificates :
        /\ d.certificates[n].TypeString \in Issued
        /\ d.certificates[n].Issuer \notin DOMAIN d.certificates}
IssuerNotAuthority(d) ==
    {n \in DOMAIN d.certificates :
        /\ d.certificates[n].TypeString \in Issued
        /\ d.certificates[n].Issuer \in DOMAIN d.certificates
        /\ d.certificates[d.certificates[n].Issuer].TypeString \notin Authorities}
LinkViolations(d) == SelfSignedWithIssuer(d) \cup MissingIssuer(d) \cup IssuerNotAuthority(d)

ValidDocument(d) ==
    /\ d.readable /\ d.parseable
    /\ UnknownDirectories(d) = {} /\ UnknownExtensions(d) = {}
    /\ InvalidTypes(d) = {} /\ LinkViolations(d) = {}

\* the kinds of error the first stage with a violation reports
ExpectedKinds(d) ==
    IF ~d.readable THEN {"DocumentReadError"}
    ELSE IF ~d.parseable THEN {"DocumentParseError"}
    ELSE IF UnknownDirectories(d) # {} \/ UnknownExtensions(d) # {} THEN {"UnrecognizedConfigKey"}
    ELSE IF InvalidTypes(d) # {} THEN {"InvalidCertificateType"}
    ELSE {"SelfSignedWithIssuer" : n \in SelfSignedWithIssuer(d)}
         \cup {"MissingIssuer" : n \in MissingIssuer(d)}
         \cup {"IssuerNotAuthority" : n \in IssuerNotAuthority(d)}
         \cup {"none" : n \in IF LinkViolations(d) = {} THEN {1} ELSE {}}

ResolvedSubject(own, fallback) ==
    [f \in {"O", "OU", "CN"} |-> IF own[f] # "" THEN own[f] ELSE fallback[f]]

ResolvedDirectory(d, key, default) ==
    IF key \in DOMAIN d.directories THEN d.directories[key] ELSE default

ResolvedExtension(d, key, default) ==
    IF key \in DOMAIN d.extensions THEN d.extensions[key] ELSE default

\* the model a valid document resolves to
ResolvedModel(d) ==
    [Directories |-> d.directories, Extensions |-> d.extensions, Subject |-> d.Subject,
     Certificates |->
        [n \in DOMAIN d.certificates |->
            LET c == d.certificates[n] IN
            [TypeString |-> c.TypeString, Issuer |-> c.Issuer,
             Subject |-> ResolvedSubject(c.Subject, d.Subject),
             Type |-> TableRow(c.TypeString).ctype,
             IsCA |-> TableRow(c.TypeString).isCA,
             IsSelfSigned |-> TableRow(c.TypeString).isSelfSigned,
             IssuerCert |-> IF c.TypeString = "rootCA" THEN Nil ELSE c.Issuer]],
     PublicDirectory |-> ResolvedDirectory(d, "public", "tls"),
     PrivateDirectory |-> ResolvedDirectory(d, "private", "tls/private"),
     ExtensionKey |-> ResolvedExtension(d, "key", "key"),
     ExtensionCert |-> ResolvedExtension(d, "certificate", "pem")]

\* following IssuerCert from certificate n reaches a self-signed certificate
\* within fuel steps
RECURSIVE ReachesRoot(_, _, _)
ReachesRoot(certs, n, fuel) ==
    IF certs[n].IsSelfSigned
    THEN certs[n].IssuerCert = Nil
    ELSE /\ fuel > 0
         /\ certs[n].IssuerCert \in DOMAIN certs
         /\ ReachesRoot(certs, certs[n].IssuerCert, fuel - 1)

(***************************************************************************)
(* C1.  Whenever GetConfig returns nil, every certificate whose type is    *)
(* not self-signed names an issuer that is a key of Config.Certificates,   *)
(* that entry has IsCA = TRUE, and the certificate's IssuerCert is that    *)
(* entry.                                                                  *)
(***************************************************************************)
C1_IssuerLinked ==
    \A p \in Invocations :
        Succeeded(p) =>
            \A n \in DOMAIN Config.Certificates :
                LET cert == Config.Certificates[n] IN
                cert.TypeString \in Issued =>
                    /\ cert.Issuer \in DOMAIN Config.Certificates
                    /\ Config.Certificates[cert.Issuer].IsCA
                    /\ cert.IssuerCert = cert.Issuer

\* Scenario A has resolved: the server's back-reference is the root entry
C1_Witness ==
    /\ Succeeded(1)
    /\ file[1].certificates = ScenarioA
    /\ Config.Certificates["b"].IssuerCert = "a"
    /\ Config.Certificates["a"].IsCA

(***************************************************************************)
(* C2.  Every successfully resolved document is a forest: a self-signed    *)
(* certificate has no issuer, and following IssuerCert from any            *)
(* certificate reaches a self-signed certificate in at most as many steps  *)
(* as there are certificates.                                              *)
(***************************************************************************)
C2_Forest ==
    \A p \in Invocations :
        Succeeded(p) =>
            \A n \in DOMAIN Config.Certificates :
                ReachesRoot(Config.Certificates, n, Cardinality(DOMAIN Config.Certificates))

(***************************************************************************)
(* C3.  When GetConfig returns an error, Config carries no resolved field  *)
(* written by the failed invocation: the directories and extensions are    *)
(* still unset and every certificate is as the decoder left it.            *)
(***************************************************************************)
C3_NoPartialModel ==
    \A p \in Invocations :
        Failed(p) =>
            /\ Config.PublicDirectory = "" /\ Config.PrivateDirectory = ""
            /\ Config.ExtensionKey = "" /\ Config.ExtensionCert = ""
            /\ \A n \in DOMAIN Config.Certificates :
                  Config.Certificates[n] =
                     Cert(file[p].certificates[n].TypeString, file[p].certificates[n].Issuer,
                          file[p].certificates[n].Subject)

\* invocation p has entered one of the stages, or has left the last one
AtOrPast(p, stages) == pc[p] \in stages \cup {loopOf(st) : st \in stages} \cup {"return"}

(***************************************************************************)
(* C4.  Validation runs in the order directories, extensions, pass 1,      *)
(* pass 2 and returns the first error met in that order: an invocation is  *)
(* at a stage only if no earlier stage has a violation, an unknown         *)
(* directories key is reported in preference to anything else, an unknown  *)
(* extensions key in preference to any certificate error, and an invalid   *)
(* type in preference to any issuer-linking error.                         *)
(***************************************************************************)
C4_FirstErrorInStageOrder ==
    \A p \in Invocations :
        LET d == file[p] IN
        /\ AtOrPast(p, {"extensions", "pass1", "pass2"}) => UnknownDirectories(d) = {}
        /\ AtOrPast(p, {"pass1", "pass2"}) => UnknownExtensions(d) = {}
        /\ AtOrPast(p, {"pass2"}) => InvalidTypes(d) = {}
        /\ Done(p) /\ Loaded(p) =>
            /\ UnknownDirectories(d) # {} =>
                  /\ err[p].kind = "UnrecognizedConfigKey"
                  /\ err[p].args[1] = "directories"
                  /\ err[p].args[2] \in UnknownDirectories(d)
            /\ UnknownDirectories(d) = {} /\ UnknownExtensions(d) # {} =>
                  /\ err[p].kind = "UnrecognizedConfigKey"
                  /\ err[p].args[1] = "extensions"
                  /\ err[p].args[2] \in UnknownExtensions(d)
            /\ UnknownDirectories(d) = {} /\ UnknownExtensions(d) = {} /\ InvalidTypes(d) # {} =>
                  /\ err[p].kind = "InvalidCertificateType"
                  /\ err[p].args[1] \in InvalidTypes(d)
            /\ err[p].kind \in {"SelfSignedWithIssuer", "MissingIssuer", "IssuerNotAuthority"} =>
                  /\ UnknownDirectories(d) = {} /\ UnknownExtensions(d) = {}
                  /\ InvalidTypes(d) = {}

\* a document with a violation at every stage has failed on its directories key
C4_Witness ==
    /\ Done(1)
    /\ UnknownDirectories(file[1]) # {} /\ UnknownExtensions(file[1]) # {}
    /\ InvalidTypes(file[1]) # {} /\ LinkViolations(file[1]) # {}
    /\ err[1].kind = "UnrecognizedConfigKey" /\ err[1].args[1] = "directories"

(***************************************************************************)
(* C5.  As claimed: a document with a rootCA certificate that names an     *)
(* issuer always fails with SelfSignedWithIssuer, whatever else it holds.  *)
(***************************************************************************)
C5_AlwaysSelfSignedWithIssuer ==
    \A p \in Invocations :
        Done(p) /\ Loaded(p) /\ SelfSignedWithIssuer(file[p]) # {} =>
            err[p].kind = "SelfSignedWithIssuer"

(***************************************************************************)
(* C5, amended.  A document with a rootCA certificate that names an issuer *)
(* never resolves.  The error is the one of the first stage with a         *)
(* violation; when no key is unknown and no type is invalid it is an       *)
(* issuer-linking error of a certificate that has one, and when the        *)
(* self-signed certificates with an issuer are the only violations it is   *)
(* SelfSignedWithIssuer naming one of them.                                *)
(***************************************************************************)
C5_SelfSignedWithIssuerFails ==
    \A p \in Invocations :
        LET d == file[p] IN
        Done(p) /\ Loaded(p) /\ SelfSignedWithIssuer(d) # {} =>
            /\ err[p] # NoError
            /\ err[p].kind \in ExpectedKinds(d)
            /\ err[p].kind = "SelfSignedWithIssuer" =>
                  /\ Len(err[p].args) = 1
                  /\ err[p].args[1] \in SelfSignedWithIssuer(d)
            /\ ( /\ UnknownDirectories(d) = {} /\ UnknownExtensions(d) = {}
                 /\ InvalidTypes(d) = {}
                 /\ MissingIssuer(d) = {} /\ IssuerNotAuthority(d) = {} )
               => err[p].kind = "SelfSignedWithIssuer"

\* Scenario C has failed with SelfSignedWithIssuer naming the root
C5_Witness ==
    /\ Done(1)
    /\ file[1].certificates = ScenarioC
    /\ err[1] = Error("SelfSignedWithIssuer", <<"a">>)

(***************************************************************************)
(* C6.  Two invocations on two documents, run at the same time: each       *)
(* returns what it returns when run alone, an error of the first stage of  *)
(* its own document that has a violation or nil, and on nil Config is the  *)
(* resolved model of its document.                                         *)
(***************************************************************************)
C6_AsIfAlone ==
    \A p \in Invocations :
        Done(p) =>
            /\ err[p].kind \in ExpectedKinds(file[p])
            /\ err[p] = NoError => Config = ResolvedModel(file[p])

(***************************************************************************)
(* C7.  getCertType returns the row of the table for each of the five      *)
(* tags and an error for any other string, and after a successful          *)
(* GetConfig every certificate's Type, IsCA and IsSelfSigned are the row   *)
(* of its type tag.                                                        *)
(***************************************************************************)
C7_TypeTable ==
    /\ \A tag \in Recognized :
          getCertType(tag).ok /\ getCertType(tag).info = TableRow(tag)
    /\ \A tag \in (TypeStrings \cup {"", "RootCA", "ca"}) \ Recognized : ~getCertType(tag).ok
    /\ \A p \in Invocations :
          Succeeded(p) =>
              \A n \in DOMAIN Config.Certificates :
                  LET cert == Config.Certificates[n] IN
                  /\ cert.TypeString \in Recognized
                  /\ cert.Type = TableRow(cert.TypeString).ctype
                  /\ cert.IsCA = TableRow(cert.TypeString).isCA
                  /\ cert.IsSelfSigned = TableRow(cert.TypeString).isSelfSigned

\* a root and the intermediate authority it issues have resolved
C7_Witness ==
    /\ Succeeded(1)
    /\ \E n \in DOMAIN Config.Certificates :
          /\ Config.Certificates[n].TypeString = "intermediateCA"
          /\ Config.Certificates[n].IsCA /\ ~Config.Certificates[n].IsSelfSigned
          /\ Config.Certificates[n].Type = 1

Decoded(p) == Loaded(p) /\ pc[p] \notin {"idle", "read", "unmarshal"}

Pass1Visited(p, n) ==
    \/ pc[p] = "pass1Loop" /\ n \notin todo[p]
    \/ pc[p] \in {"pass2", "pass2Loop", "return"}
    \/ Done(p) /\ err[p].kind \in {"none", "SelfSignedWithIssuer", "MissingIssuer",
                                   "IssuerNotAuthority"}

Pass1NotVisited(p, n) ==
    \/ pc[p] \in {"directories", "directoriesLoop", "extensions", "extensionsLoop", "pass1"}
    \/ pc[p] = "pass1Loop" /\ n \in todo[p]
    \/ Done(p) /\ err[p].kind = "UnrecognizedConfigKey"

(***************************************************************************)
(* C8.  Subject defaulting is field-wise and independent per certificate:  *)
(* once pass 1 has visited a certificate, each of O, OU and CN is the      *)
(* certificate's own value if that is non-empty and the document-level     *)
(* value otherwise; a certificate pass 1 has not visited yet still has its *)
(* own subject; and the document-level subject is never modified.          *)
(***************************************************************************)
C8_SubjectFieldwise ==
    \A p \in Invocations :
        Decoded(p) =>
            /\ Config.Subject = file[p].Subject
            /\ \A n \in DOMAIN file[p].certificates :
                  LET own == file[p].certificates[n].Subject
                      got == Config.Certificates[n].Subject
                  IN  /\ Pass1Visited(p, n) =>
                            /\ got.O = (IF own.O # "" THEN own.O ELSE file[p].Subject.O)
                            /\ got.OU = (IF own.OU # "" THEN own.OU ELSE file[p].Subject.OU)
                            /\ got.CN = (IF own.CN # "" THEN own.CN ELSE file[p].Subject.CN)
                      /\ Pass1NotVisited(p, n) => got = own

\* the example of section 8, beside a certificate that keeps all of its own fields
C8_Witness ==
    /\ Succeeded(1)
    /\ DOMAIN file[1].certificates = {"a", "b"}
    /\ file[1].Subject = AcmeSubject
    /\ file[1].certificates["a"].Subject = SubjectType("", "X", "")
    /\ Config.Certificates["a"].Subject = SubjectType("Acme", "X", "foo.com")
    /\ Config.Certificates["b"].Subject = SubjectType("Org", "X", "host")

(***************************************************************************)
(* C9.  A key under directories other than public and private, or under    *)
(* extensions other than key and certificate, makes GetConfig fail with an *)
(* unrecognized-key error; otherwise, once both loops are done, each       *)
(* recognized key that is present has replaced its default and each that   *)
(* is absent has left its default: tls, tls/private, key, pem.             *)
(***************************************************************************)
C9_DirectoriesAndExtensions ==
    \A p \in Invocations :
        LET d == file[p] IN
        Loaded(p) =>
            /\ Done(p) /\ (UnknownDirectories(d) # {} \/ UnknownExtensions(d) # {}) =>
                  err[p].kind = "UnrecognizedConfigKey"
            /\ ( \/ AtOrPast(p, {"pass1", "pass2"})
                 \/ Done(p) /\ err[p].kind # "UnrecognizedConfigKey" ) =>
                  /\ UnknownDirectories(d) = {} /\ UnknownExtensions(d) = {}
                  /\ Config.PublicDirectory =
                        (IF "public" \in DOMAIN d.directories THEN d.directories["public"] ELSE "tls")
                  /\ Config.PrivateDirectory =
                        (IF "private" \in DOMAIN d.directories THEN d.directories["private"]
                         ELSE "tls/private")
                  /\ Config.ExtensionKey =
                        (IF "key" \in DOMAIN d.extensions THEN d.extensions["key"] ELSE "key")
                  /\ Config.ExtensionCert =
                        (IF "certificate" \in DOMAIN d.extensions THEN d.extensions["certificate"]
                         ELSE "pem")

\* one key of each section overridden, the other left at its default
C9_Witness ==
    /\ Succeeded(1)
    /\ DOMAIN file[1].directories = {"private"}
    /\ DOMAIN file[1].extensions = {"key"}
    /\ Config.PublicDirectory = "tls" /\ Config.PrivateDirectory = "priv"
    /\ Config.ExtensionKey = "k" /\ Config.ExtensionCert = "pem"

(***************************************************************************)
(* C10.  The result does not depend on the order in which the three        *)
(* mappings are iterated: under every order GetConfig returns nil exactly  *)
(* when the document has no violation, Config is then the one resolved     *)
(* model of the document, and an error is one of the first stage that has  *)
(* a violation.                                                            *)
(***************************************************************************)
C10_IterationOrderIrrelevant ==
    \A p \in Invocations :
        Done(p) =>
            /\ (err[p] = NoError) <=> ValidDocument(file[p])
            /\ err[p] = NoError => Config = ResolvedModel(file[p])
            /\ err[p].kind \in ExpectedKinds(file[p])

\* a chain of two certificates has resolved, whichever was visited first
C10_Witness ==
    /\ Succeeded(1)
    /\ DOMAIN file[1].directories = {"public", "private"}
    /\ DOMAIN file[1].extensions = {"key", "certificate"}
    /\ file[1].certificates = ScenarioA
    /\ Config = ResolvedModel(file[1])

====
